---- MODULE Spec2Model ----
(***************************************************************************)
(* Perpetuals snapshot dashboard (streamlit.py): the upstream fetch with   *)
(* its allow-list filter, the joblib time-to-live cache, and the pandas    *)
(* aggregation pipeline that builds the funding and open-interest tables.  *)
(*                                                                         *)
(* A nullable value (JSON null / None / NaN) is the empty sequence <<>>;   *)
(* a present value v is the one-element sequence <<v>>.                    *)
(***************************************************************************)
EXTENDS Integers, Sequences, FiniteSets, TLC

VARIABLES
  now,            \* datetime.now(timezone.utc), in seconds
  cache,          \* the file perps_snapshot.joblib
  fetchCalls,     \* number of calls of fetch_data so far
  calls,          \* number of page loads (script runs) so far
  touched,        \* the cache file was changed from outside since the last page load
  resp,           \* what the upstream answered to the last requests.get
  ret,            \* outcome of the last get_data() call
  page,           \* outcome of the last script run
  df_db,          \* the frame the pipeline ran on (line 100)
  df_best,        \* lines 106-111
  top_tokens,     \* lines 154-160
  funding_table,  \* lines 138-143, 161, 165-168
  oi_table        \* lines 146-151, 162, 191-194

vars == <<now, cache, fetchCalls, calls, touched, resp, ret, page,
          df_db, df_best, top_tokens, funding_table, oi_table>>

(***************************************************************************)
(* Bounds of the model                                                     *)
(***************************************************************************)
\* longest upstream response (number of contracts) the model enumerates
MaxItems == 2
\* head(100) of line 158, scaled down to the token universe of the model
TopN == 1
\* longest upstream response the cache specification enumerates
MaxResp == 2
\* the clock stops advancing past this many seconds
MaxNow == 28800
\* page loads per behaviour
MaxCalls == 3

(***************************************************************************)
(* Program constants                                                       *)
(***************************************************************************)
ALLOWED_MARKETS ==
  { "Binance (Futures)", "Bitget Futures", "Bybit (Futures)", "CoinW (Futures)",
    "Gate (Futures)", "Hyperliquid (Futures)", "WEEX (Futures)", "OKX (Futures)",
    "XT.COM (Derivatives)", "HTX Futures", "CoinCatch Derivatives",
    "MEXC (Futures)", "Bitmart Futures", "WhiteBIT Futures", "Toobit Futures",
    "BingX (Futures)", "Deepcoin (Derivatives)", "DMEX", "KuCoin Futures",
    "LBank (Futures)", "Deribit" }

CACHE_TTL == 60 * 60 * 4

(***************************************************************************)
(* Nullable values                                                         *)
(***************************************************************************)
NaN == <<>>
IsNull(x) == x = <<>>
Val(x) == x[1]

(***************************************************************************)
(* The upstream universe the model draws responses from                    *)
(***************************************************************************)
\* index_id is always present; open_interest, funding_rate and volume_24h
\* are numbers or null, which pandas holds as float columns with NaN
TokenNames == <<"BTC", "ETH", "SOL", "XRP", "DOGE">>
Tokens == { TokenNames[i] : i \in 1..(TopN + 1) }
Volumes == {NaN, <<1>>, <<2>>}
Fundings == {NaN, <<5>>}
OpenInterests == {NaN, <<7>>}

UpstreamItem(ms, ts, os, fs, vs) ==
  [market : ms, symbol : {"PERP"}, index_id : ts,
   open_interest : os, funding_rate : fs, volume_24h : vs]

RECURSIVE SeqsUpTo(_, _)
SeqsUpTo(S, n) ==
  IF n = 0 THEN { <<>> }
  ELSE LET shorter == SeqsUpTo(S, n - 1)
       IN  shorter \cup { Append(s, x) : s \in { q \in shorter : Len(q) = n - 1 }, x \in S }

(***************************************************************************)
(* fetch_data, lines 52-74                                                 *)
(***************************************************************************)
Columns == {"market", "symbol", "index_id", "open_interest", "funding_rate",
            "volume_24h", "fetched_at"}

\* pd.DataFrame(list of dicts): an empty list makes a frame without columns
DataFrame(rows) ==
  [columns |-> IF rows = <<>> THEN {} ELSE Columns, rows |-> rows]

Stamp(item, t) ==
  [market |-> item.market, symbol |-> item.symbol, index_id |-> item.index_id,
   open_interest |-> item.open_interest, funding_rate |-> item.funding_rate,
   volume_24h |-> item.volume_24h, fetched_at |-> t]

\* line 72 without its condition
FilterNothing(data) == data

FilterAllowed(data) == SelectSeq(data, LAMBDA item : item.market \in ALLOWED_MARKETS)

FetchData(data, t) ==
  LET kept == FilterAllowed(data)
  IN  DataFrame([i \in 1..Len(kept) |-> Stamp(kept[i], t)])

(***************************************************************************)
(* df_best, lines 103-111                                                  *)
(***************************************************************************)
\* line 103: the token column is a copy of index_id
WithToken(rows) ==
  [i \in 1..Len(rows) |->
     [market |-> rows[i].market, symbol |-> rows[i].symbol,
      index_id |-> rows[i].index_id, open_interest |-> rows[i].open_interest,
      funding_rate |-> rows[i].funding_rate, volume_24h |-> rows[i].volume_24h,
      fetched_at |-> rows[i].fetched_at, token |-> rows[i].index_id]]

\* the sort key with ascending=True for volume_24h, NaN last
VolBeforeAscending(a, b) ==
  /\ ~IsNull(a.volume_24h)
  /\ (IsNull(b.volume_24h) \/ Val(a.volume_24h) < Val(b.volume_24h))

\* sort key of volume_24h, ascending=False, NaN last
VolBefore(a, b) ==
  /\ ~IsNull(a.volume_24h)
  /\ (IsNull(b.volume_24h) \/ Val(a.volume_24h) > Val(b.volume_24h))

RECURSIVE InsertSorted(_, _)
InsertSorted(sorted, r) ==
  IF sorted = <<>> THEN <<r>>
  ELSE IF VolBefore(r, Head(sorted)) THEN <<r>> \o sorted
  ELSE <<Head(sorted)>> \o InsertSorted(Tail(sorted), r)

RECURSIVE SortByVolume(_)
SortByVolume(rows) ==
  IF rows = <<>> THEN <<>>
  ELSE InsertSorted(SortByVolume(SubSeq(rows, 1, Len(rows) - 1)), rows[Len(rows)])

\* the rows of one (token, market) group, in the order sort_values leaves them
SortedGroup(rows, t, m) ==
  SortByVolume(SelectSeq(rows, LAMBDA r : r.token = t /\ r.market = m))

\* GroupBy.first(): per column, the first value of the group that is not null
RECURSIVE FirstNotNull(_, _)
FirstNotNull(group, col) ==
  IF group = <<>> THEN NaN
  ELSE IF ~IsNull(Head(group)[col]) THEN Head(group)[col]
  ELSE FirstNotNull(Tail(group), col)

GroupKeys(rows) == { <<rows[i].token, rows[i].market>> : i \in 1..Len(rows) }

DfBest(rows) ==
  { LET g == SortedGroup(rows, k[1], k[2])
    IN  [token |-> k[1], market |-> k[2],
         symbol |-> g[1].symbol, index_id |-> g[1].index_id,
         open_interest |-> FirstNotNull(g, "open_interest"),
         funding_rate |-> FirstNotNull(g, "funding_rate"),
         volume_24h |-> FirstNotNull(g, "volume_24h"),
         fetched_at |-> g[1].fetched_at]
    : k \in GroupKeys(rows) }

(***************************************************************************)
(* pivot_table, lines 138-151                                              *)
(***************************************************************************)
\* pivot_table(dropna=True): the (token, market) entries whose value is null
\* are dropped before unstacking, so only tokens and markets with a value
\* make a row or a column
PivotTable(best, col) ==
  LET agged == { r \in best : ~IsNull(r[col]) }
      idx   == { r.token : r \in agged }
      cols  == { r.market : r \in agged }
  IN  [index |-> idx, columns |-> cols,
       cells |-> [c \in idx \X cols |->
                    IF \E r \in agged : r.token = c[1] /\ r.market = c[2]
                    THEN (CHOOSE r \in agged : r.token = c[1] /\ r.market = c[2])[col]
                    ELSE NaN]]

(***************************************************************************)
(* top_tokens, lines 154-162                                               *)
(***************************************************************************)
RECURSIVE SumVolumes(_)
SumVolumes(S) ==
  IF S = {} THEN 0
  ELSE LET r == CHOOSE x \in S : TRUE
       IN  (IF IsNull(r.volume_24h) THEN 0 ELSE Val(r.volume_24h))
             + SumVolumes(S \ {r})

\* groupby("token")["volume_24h"].sum(): nulls are skipped
TokenVolume(best, t) == SumVolumes({ r \in best : r.token = t })

Min(a, b) == IF a < b THEN a ELSE b

\* sort_values with its default ascending=True: the smallest sums are kept
TopTokensAscending(best, n) ==
  LET toks == { r.token : r \in best }
  IN  { S \in SUBSET toks :
          /\ Cardinality(S) = Min(n, Cardinality(toks))
          /\ \A t \in S : \A u \in toks \ S :
               TokenVolume(best, t) <= TokenVolume(best, u) }

\* sort_values(ascending=False).head(n).index: the order among equal sums is
\* whatever the unstable sort leaves, so every set the sort can cut is possible
TopTokens(best, n) ==
  LET toks == { r.token : r \in best }
  IN  { S \in SUBSET toks :
          /\ Cardinality(S) = Min(n, Cardinality(toks))
          /\ \A t \in S : \A u \in toks \ S :
               TokenVolume(best, t) >= TokenVolume(best, u) }

\* table[table["token"].isin(top_tokens)]
FilterRows(table, top) ==
  LET idx == table.index \cap top
  IN  [index |-> idx, columns |-> table.columns,
       cells |-> [c \in idx \X table.columns |-> table.cells[c]]]

(***************************************************************************)
(* formatting, lines 165-168 and 191-194                                   *)
(***************************************************************************)
Placeholder == [kind |-> "-", digits |-> 0]

\* f"{x:.4f}%": digits are the value in units of 0.0001 percent
FormatFunding(x) == IF IsNull(x) THEN Placeholder ELSE [kind |-> "%", digits |-> Val(x)]

\* f"${x:,.0f}": digits are the value in whole dollars
FormatOI(x) == IF IsNull(x) THEN Placeholder ELSE [kind |-> "$", digits |-> Val(x)]

\* lines 165-168: every column after "token" of the funding table
FormatFundingTable(table) ==
  [index |-> table.index, columns |-> table.columns,
   cells |-> [c \in table.index \X table.columns |-> FormatFunding(table.cells[c])]]

\* lines 191-194: every column after "token" of the open-interest table
FormatOITable(table) ==
  [index |-> table.index, columns |-> table.columns,
   cells |-> [c \in table.index \X table.columns |-> FormatOI(table.cells[c])]]

EmptyTable == [index |-> {}, columns |-> {}, cells |-> [c \in {} |-> Placeholder]]

(***************************************************************************)
(* the script from line 103 on, run on the frame get_data returned         *)
(***************************************************************************)
Pipeline(df) ==
  IF "index_id" \notin df.columns
  THEN \* line 103 raises KeyError and the script stops
       /\ page' = [status |-> "error", error |-> "KeyError"]
       /\ df_best' = {}
       /\ top_tokens' = {}
       /\ funding_table' = EmptyTable
       /\ oi_table' = EmptyTable
  ELSE LET best == DfBest(WithToken(df.rows))
       IN  /\ page' = [status |-> "ok", error |-> "none"]
           /\ df_best' = best
           /\ top_tokens' \in TopTokens(best, TopN)
           /\ funding_table' =
                FormatFundingTable(FilterRows(PivotTable(best, "funding_rate"), top_tokens'))
           /\ oi_table' =
                FormatOITable(FilterRows(PivotTable(best, "open_interest"), top_tokens'))

NoPage == [status |-> "none", error |-> "none"]
\* elapsed is the value line 83 computed, -1 when the call did not reach line 83
NoRet == [status |-> "none", src |-> "none", data |-> DataFrame(<<>>), error |-> "none",
          elapsed |-> -1]
NoResp == [ok |-> FALSE, body |-> <<>>]
Absent == [kind |-> "absent", data |-> DataFrame(<<>>), fetched_at |-> 0]

(***************************************************************************)
(* The pipeline on its own: every frame get_data can return                *)
(***************************************************************************)
PipeResponses ==
  SeqsUpTo(UpstreamItem({"Bybit (Futures)", "Deribit"}, Tokens,
                        OpenInterests, Fundings, Volumes), MaxItems)

PipeInit ==
  /\ now = 1
  /\ cache = Absent
  /\ fetchCalls = 1
  /\ calls = 0
  /\ touched = FALSE
  /\ \E data \in PipeResponses :
       /\ resp = [ok |-> TRUE, body |-> data]
       /\ df_db = FetchData(data, 1)
       /\ ret = [status |-> "returned", src |-> "fetch", data |-> df_db, error |-> "none",
                 elapsed |-> -1]
  /\ page = NoPage
  /\ df_best = {}
  /\ top_tokens = {}
  /\ funding_table = EmptyTable
  /\ oi_table = EmptyTable

BuildTables ==
  /\ page = NoPage
  /\ calls' = calls + 1
  /\ Pipeline(df_db)
  /\ UNCHANGED <<now, cache, fetchCalls, touched, resp, ret, df_db>>

PipeNext == BuildTables

PipeSpec == PipeInit /\ [][PipeNext]_vars

(***************************************************************************)
(* get_data, lines 78-91, and the script run it starts                     *)
(***************************************************************************)
\* the comparison of line 84 turned around
FreshInverted(elapsed) == elapsed > CACHE_TTL

\* the comparison of line 84 with the boundary let through
FreshInclusive(elapsed) == elapsed <= CACHE_TTL

\* line 84
Fresh(elapsed) == elapsed < CACHE_TTL

\* lines 79-85: the cached frame is returned
CacheHit(c, t) ==
  /\ c.kind = "ok"
  /\ Fresh(t - c.fetched_at)

\* line 80: joblib.load raises on a file it cannot deserialize
LoadRaises(c) == c.kind = "corrupt"

\* line 83; -1 when there is no file with a fetched_at to read
Elapsed(c, t) == IF c.kind = "ok" THEN t - c.fetched_at ELSE -1

Returned(src, df, el) ==
  [status |-> "returned", src |-> src, data |-> df, error |-> "none", elapsed |-> el]
Raised(src, e, el) ==
  [status |-> "raised", src |-> src, data |-> DataFrame(<<>>), error |-> e, elapsed |-> el]

\* the script stops at an exception of get_data: nothing is rendered
Aborted(e) ==
  /\ page' = [status |-> "error", error |-> e]
  /\ df_db' = DataFrame(<<>>)
  /\ df_best' = {}
  /\ top_tokens' = {}
  /\ funding_table' = EmptyTable
  /\ oi_table' = EmptyTable

\* the upstream answers of one requests.get: an error, or a list of contracts
\* a contract of an allow-listed exchange and a contract of an unknown
\* exchange with a greater volume
SpecItems ==
  UpstreamItem({"Deribit"}, {"BTC"}, {<<7>>}, {<<5>>}, {<<1>>})
    \cup UpstreamItem({"Unknown Exchange"}, {"BTC"}, {<<7>>}, {<<5>>}, {<<2>>})

SpecResponses == SeqsUpTo(SpecItems, MaxResp)

UpstreamAnswers ==
  {NoResp} \cup { [ok |-> TRUE, body |-> b] : b \in SpecResponses }

\* joblib.dump: written, refused before the file is opened, or cut short
DumpOutcomes == {"written", "refused", "partial"}

PageLoad ==
  /\ calls < MaxCalls
  /\ calls' = calls + 1
  /\ touched' = FALSE
  /\ IF LoadRaises(cache)
     THEN /\ ret' = Raised("none", "LoadError", -1)
          /\ Aborted("LoadError")
          /\ UNCHANGED <<now, cache, fetchCalls, resp>>
     ELSE IF CacheHit(cache, now)
     THEN /\ ret' = Returned("cache", cache.data, Elapsed(cache, now))
          /\ df_db' = cache.data
          /\ Pipeline(cache.data)
          /\ UNCHANGED <<now, cache, fetchCalls, resp>>
     ELSE \E answer \in UpstreamAnswers, dump \in DumpOutcomes :
          /\ fetchCalls' = fetchCalls + 1
          /\ now' = now + 1                      \* line 54, time.sleep(1)
          /\ resp' = answer
          /\ IF ~answer.ok
             THEN /\ ret' = Raised("fetch", "UpstreamError", Elapsed(cache, now))
                  /\ Aborted("UpstreamError")
                  /\ UNCHANGED cache
             ELSE LET df == FetchData(answer.body, now')
                  IN  IF dump = "written"
                      THEN /\ cache' = [kind |-> "ok", data |-> df, fetched_at |-> now']
                           /\ ret' = Returned("fetch", df, Elapsed(cache, now))
                           /\ df_db' = df
                           /\ Pipeline(df)
                      ELSE /\ cache' = IF dump = "partial"
                                       THEN [kind |-> "corrupt", data |-> DataFrame(<<>>),
                                             fetched_at |-> 0]
                                       ELSE cache
                           /\ ret' = Raised("fetch", "DumpError", Elapsed(cache, now))
                           /\ Aborted("DumpError")

\* the clock advances between page loads
TickSteps == {CACHE_TTL - 1, CACHE_TTL}

Tick ==
  /\ \E d \in TickSteps :
       /\ now + d <= MaxNow
       /\ now' = now + d
  /\ UNCHANGED <<cache, fetchCalls, calls, touched, resp, ret, page,
                 df_db, df_best, top_tokens, funding_table, oi_table>>

\* the cache file is damaged or removed from outside the program
TouchKinds == {"absent", "corrupt"}

TouchCache ==
  /\ cache.kind = "ok"
  /\ \E k \in TouchKinds :
       cache' = [kind |-> k, data |-> DataFrame(<<>>), fetched_at |-> 0]
  /\ touched' = TRUE
  /\ UNCHANGED <<now, fetchCalls, calls, resp, ret, page,
                 df_db, df_best, top_tokens, funding_table, oi_table>>

Init ==
  /\ now = 0
  /\ cache = Absent
  /\ fetchCalls = 0
  /\ calls = 0
  /\ touched = FALSE
  /\ resp = NoResp
  /\ ret = NoRet
  /\ page = NoPage
  /\ df_db = DataFrame(<<>>)
  /\ df_best = {}
  /\ top_tokens = {}
  /\ funding_table = EmptyTable
  /\ oi_table = EmptyTable

Next == PageLoad \/ Tick \/ TouchCache

Spec == Init /\ [][Next]_vars

(***************************************************************************)
(* Properties of the cache and the fetch, checked under Spec               *)
(***************************************************************************)
IsPageLoad == calls' = calls + 1

\* C1: a get_data call that follows a call which returned, less than
\* CACHE_TTL seconds after the stamp of the snapshot in the cache file and
\* with the file not touched in between, does not call fetch_data, leaves
\* the file alone and returns the same data as the call before it.
C1_HitWithinTTL ==
  [][ ( /\ IsPageLoad
        /\ ret.status = "returned"
        /\ ~touched
        /\ cache.kind = "ok"
        /\ now - cache.fetched_at < CACHE_TTL )
      => ( /\ fetchCalls' = fetchCalls
           /\ ret'.status = "returned"
           /\ ret'.src = "cache"
           /\ ret'.data = ret.data
           /\ cache' = cache ) ]_vars

\* a second page load one second before the snapshot expires was served from
\* the file, after one fetch in total
C1_Witness ==
  /\ calls >= 2
  /\ fetchCalls = 1
  /\ ret.status = "returned"
  /\ ret.src = "cache"
  /\ ret.elapsed = CACHE_TTL - 1
  /\ ret.data = cache.data
  /\ ret.data.rows # <<>>

\* C2: a get_data call that finds a cache file it cannot deserialize calls
\* fetch_data as on a miss, and the failed read does not reach the caller.
C2_CorruptIsMiss ==
  [][ (IsPageLoad /\ cache.kind = "corrupt")
      => ( /\ fetchCalls' = fetchCalls + 1
           /\ ret'.error # "LoadError" ) ]_vars

\* C3: a get_data call in which fetch_data succeeded returns the fresh
\* frame, whether or not the frame could be written to the cache file.
C3_WriteFailureIgnored ==
  [][ (IsPageLoad /\ fetchCalls' = fetchCalls + 1 /\ resp'.ok)
      => ( /\ ret'.status = "returned"
           /\ ret'.data = FetchData(resp'.body, now') ) ]_vars

MarketsOf(rows) == { rows[i].market : i \in 1..Len(rows) }

\* C7: no record of a market outside the allow-list is in the frame
\* get_data returned, in the cache file, in the best-per-pair set or among
\* the columns of either table.
C7_AllowList ==
  /\ MarketsOf(ret.data.rows) \subseteq ALLOWED_MARKETS
  /\ MarketsOf(cache.data.rows) \subseteq ALLOWED_MARKETS
  /\ MarketsOf(df_db.rows) \subseteq ALLOWED_MARKETS
  /\ { r.market : r \in df_best } \subseteq ALLOWED_MARKETS
  /\ funding_table.columns \subseteq ALLOWED_MARKETS
  /\ oi_table.columns \subseteq ALLOWED_MARKETS

\* the upstream answered with a contract of an unknown exchange whose volume
\* is the greatest of the answer, and the page was rendered from the rest
C7_Witness ==
  /\ resp.ok
  /\ \E i \in 1..Len(resp.body), j \in 1..Len(resp.body) :
       /\ resp.body[i].market \notin ALLOWED_MARKETS
       /\ resp.body[j].market \in ALLOWED_MARKETS
       /\ resp.body[i].volume_24h = <<2>>
       /\ resp.body[j].volume_24h = <<1>>
  /\ ret.status = "returned"
  /\ cache.kind = "ok"
  /\ Len(cache.data.rows) = 1
  /\ funding_table.columns = {"Deribit"}
  /\ oi_table.columns = {"Deribit"}

C10_EmptySnapshot ==
  (ret.status = "returned" /\ ret.data.rows = <<>>)
    => ( /\ page.status = "ok"
         /\ funding_table.index = {}
         /\ oi_table.index = {} )

(***************************************************************************)
(* Properties of the aggregation pipeline, checked under PipeSpec          *)
(***************************************************************************)
InputRows == df_db.rows
InputPairs == { <<InputRows[i].index_id, InputRows[i].market>> : i \in 1..Len(InputRows) }
PairRows(t, m) ==
  { i \in 1..Len(InputRows) : InputRows[i].index_id = t /\ InputRows[i].market = m }

\* v is the greatest volume_24h among the records of the pair, a null
\* volume counting as lower than any present one
IsMaxVolume(v, t, m) ==
  IF \A i \in PairRows(t, m) : IsNull(InputRows[i].volume_24h)
  THEN IsNull(v)
  ELSE /\ ~IsNull(v)
       /\ \E i \in PairRows(t, m) : InputRows[i].volume_24h = v
       /\ \A i \in PairRows(t, m) :
            IsNull(InputRows[i].volume_24h) \/ Val(InputRows[i].volume_24h) <= Val(v)

\* C4: the best-per-pair set has exactly one record for every (token, market)
\* pair of the input and none for any other pair, and the volume_24h of that
\* record is the greatest of the pair, null counting as the lowest.
C4_BestPerPair ==
  page.status = "ok" =>
    /\ { <<r.token, r.market>> : r \in df_best } = InputPairs
    /\ \A p \in InputPairs :
         Cardinality({ r \in df_best : r.token = p[1] /\ r.market = p[2] }) = 1
    /\ \A r \in df_best : IsMaxVolume(r.volume_24h, r.token, r.market)

\* a pair with two records, the lower volume first, was reduced to the
\* record volume of the second
C4_Witness ==
  /\ page.status = "ok"
  /\ Len(InputRows) = 2
  /\ InputRows[1].index_id = InputRows[2].index_id
  /\ InputRows[1].market = InputRows[2].market
  /\ InputRows[1].volume_24h = <<1>>
  /\ InputRows[2].volume_24h = <<2>>
  /\ \E r \in df_best : r.volume_24h = <<2>>

BestTokens == { r.token : r \in df_best }
BestMarkets == { r.market : r \in df_best }

\* the volume of the best-per-pair record of (t, m): 0 when it is null or
\* when there is no such record
PairVolume(t, m) ==
  IF \E r \in df_best : r.token = t /\ r.market = m /\ ~IsNull(r.volume_24h)
  THEN Val((CHOOSE r \in df_best : r.token = t /\ r.market = m).volume_24h)
  ELSE 0

RECURSIVE AggOver(_, _)
AggOver(t, ms) ==
  IF ms = {} THEN 0
  ELSE LET m == CHOOSE x \in ms : TRUE
       IN  PairVolume(t, m) + AggOver(t, ms \ {m})

\* aggregate volume of a token over its best-per-pair records
AggVolume(t) == AggOver(t, BestMarkets)

\* fewer than TopN tokens have a strictly greater aggregate volume than t
AmongTop(t) == Cardinality({ u \in BestTokens : AggVolume(u) > AggVolume(t) }) < TopN

MaxRows(t, m) ==
  { i \in PairRows(t, m) : IsMaxVolume(InputRows[i].volume_24h, t, m) }

\* the cell a table shows for (t, m), if it has that row and that column
Shown(table, t, m) ==
  IF t \in table.index /\ m \in table.columns THEN { table.cells[<<t, m>>] } ELSE {}

\* C6: for every (token, market) pair of a retained token, the funding cell
\* and the open-interest cell are those of a greatest-volume record of the
\* pair: the placeholder when that record has no value, even when a record
\* of lower volume has one.
C6_CellsFromSelected ==
  page.status = "ok" =>
    \A p \in InputPairs :
      p[1] \in top_tokens =>
        /\ Shown(funding_table, p[1], p[2]) \subseteq
             { FormatFunding(InputRows[i].funding_rate) : i \in MaxRows(p[1], p[2]) }
        /\ Shown(oi_table, p[1], p[2]) \subseteq
             { FormatOI(InputRows[i].open_interest) : i \in MaxRows(p[1], p[2]) }

\* C9: the two tables have the same shape: a row for every retained token
\* and a column for every exchange of the best-per-pair set, also where all
\* the values are null.
C9_SameShape ==
  page.status = "ok" =>
    /\ funding_table.index = top_tokens
    /\ oi_table.index = top_tokens
    /\ funding_table.columns = BestMarkets
    /\ oi_table.columns = BestMarkets

====
